---- MODULE Spec2Model ----
(***************************************************************************)
(* qp_translator: translation of HTTP query parameters into a ParseResult. *)
(*                                                                         *)
(* The model follows src/qp_translator/qp_translator/qp_translator.py:     *)
(*   - QPTranslatorMetaclass.__new__ (the registry of a translator type)   *)
(*   - QPTranslator.parse and QPTranslator._check_required_filters         *)
(* and src/qp_translator/qp_translator/str_parsers/str_parsers.py for the  *)
(* value parsers.  A query string is a sequence of <<key, value>> pairs; a *)
(* string is a sequence of characters; a Python dict is a sequence of      *)
(* <<key, value>> pairs in insertion order.                                *)
(***************************************************************************)
EXTENDS Integers, Sequences, FiniteSets, TLC

VARIABLES classes, call, before, running

vars == <<classes, call, before, running>>

(***************************************************************************)
(* Bounds of the model.                                                    *)
(***************************************************************************)
\* pairs in a query string checked against the filters
MaxLen == 3
\* translator types, QPTranslator itself included
MaxClasses == 3
\* bases listed by one type definition
MaxBases == 2
\* characters in one pagination value
MaxValLen == 2
\* pairs in a query string of pagination values
MaxPageLen == 2
\* translator types when the registries are what is checked
MaxTypes == 4
\* pairs in a query string given to one of that many types
MaxTypeLen == 1
\* pairs in a query string that is parsed twice
MaxTwiceLen == 2
\* translator types when their documentation is what is checked
MaxDocTypes == 3
\* parse calls in progress at one time
MaxCalls == 2
\* pairs in the query string of a call that runs beside another
MaxCallLen == 2

(***************************************************************************)
(* Python dicts: insertion-ordered, a key keeps the place of its first     *)
(* insertion when it is assigned again.                                    *)
(***************************************************************************)
EmptyDict == <<>>

DictKeys(d) == [i \in 1..Len(d) |-> d[i][1]]

DictKeySet(d) == {d[i][1] : i \in 1..Len(d)}

\* variant, not the code: the values, last inserted first
DictValuesReversed(d) == [i \in 1..Len(d) |-> d[Len(d) + 1 - i][2]]

DictValues(d) == [i \in 1..Len(d) |-> d[i][2]]

DictHas(d, k) == \E i \in 1..Len(d) : d[i][1] = k

DictGet(d, k) == d[CHOOSE i \in 1..Len(d) : d[i][1] = k][2]

DictSet(d, k, v) ==
    IF DictHas(d, k)
    THEN [i \in 1..Len(d) |-> IF d[i][1] = k THEN <<k, v>> ELSE d[i]]
    ELSE Append(d, <<k, v>>)

RECURSIVE DictUpdate(_, _)
DictUpdate(d, e) ==
    IF e = <<>> THEN d
    ELSE DictUpdate(DictSet(d, e[1][1], e[1][2]), Tail(e))

(***************************************************************************)
(* Strings.  A character is named by a token: "ar3" is U+0663 ARABIC-INDIC *)
(* DIGIT THREE (category Nd), "sup2" is U+00B2 SUPERSCRIPT TWO (category   *)
(* No, Numeric_Type=Digit).                                                *)
(***************************************************************************)
Chars == {"0", "1", "-", " ", "a", "ar3", "sup2"}

\* str.isdecimal of one character: category Nd
IsDecimalChar(c) == c \in {"0", "1", "ar3"}

\* str.isdigit of one character: Numeric_Type Digit or Decimal
IsDigitChar(c) == IsDecimalChar(c) \/ c = "sup2"

IsSpaceChar(c) == c = " "

DigitValue(c) == CASE c = "0" -> 0 [] c = "1" -> 1 [] c = "ar3" -> 3 [] OTHER -> 0

\* str.isdigit(): non-empty and every character a digit
IsDigit(s) == Len(s) > 0 /\ \A i \in 1..Len(s) : IsDigitChar(s[i])

RECURSIVE LStrip(_)
LStrip(s) == IF s # <<>> /\ IsSpaceChar(s[1]) THEN LStrip(Tail(s)) ELSE s

RECURSIVE RStrip(_)
RStrip(s) ==
    IF s # <<>> /\ IsSpaceChar(s[Len(s)]) THEN RStrip(SubSeq(s, 1, Len(s) - 1)) ELSE s

RECURSIVE DecimalValue(_)
DecimalValue(s) ==
    IF s = <<>> THEN 0
    ELSE 10 * DecimalValue(SubSeq(s, 1, Len(s) - 1)) + DigitValue(s[Len(s)])

\* int(s): surrounding whitespace stripped, one optional sign, then decimal
\* digits only; anything else is a ValueError
IntBody(s) == LET t == RStrip(LStrip(s)) IN
    IF t # <<>> /\ t[1] = "-" THEN Tail(t) ELSE t

IntNegative(s) == LET t == RStrip(LStrip(s)) IN t # <<>> /\ t[1] = "-"

IntAccepts(s) ==
    LET b == IntBody(s) IN Len(b) > 0 /\ \A i \in 1..Len(b) : IsDecimalChar(b[i])

IntValue(s) == IF IntNegative(s) THEN 0 - DecimalValue(IntBody(s)) ELSE DecimalValue(IntBody(s))

(***************************************************************************)
(* Exceptions and typed values.                                            *)
(***************************************************************************)
NoNames == {}

\* an exception: its type, for an HTTPException its status code, and its
\* message as a fixed text, the names it lists and the value it quotes
Exc(type, status, head, names, value) ==
    [type |-> type, status |-> status, head |-> head, names |-> names,
     value |-> value]

NoExc == Exc("none", 0, "", NoNames, <<>>)

\* starlette.status.HTTP_400_BAD_REQUEST
HTTP_400_BAD_REQUEST == 400

HTTPException(status_code, head, names, value) ==
    Exc("HTTPException", status_code, head, names, value)

NoneVal == [t |-> "none", v |-> 0]

StrVal(s) == [t |-> "str", v |-> s]

IntVal(n) == [t |-> "int", v |-> n]

ListVal(l) == [t |-> "list", v |-> l]

BoolVal(b) == [t |-> "bool", v |-> b]

\* a datetime at midnight, by its year, month and day
DateVal(y, m, d) == [t |-> "datetime", v |-> <<y, m, d>>]

\* a member of an Enum class, by its value
EnumVal(enum, value) == [t |-> "enum", v |-> [enum |-> enum.name, value |-> value]]

Returned(v) == [exc |-> NoExc, val |-> v]

Raised(e) == [exc |-> e, val |-> StrVal(<<>>)]

(***************************************************************************)
(* Filter (schemes.py) and the declarations a translator type may carry.   *)
(***************************************************************************)
Filter(q_func, t_parser, type_arg, many, exclusions, is_required, description) ==
    [q_func |-> q_func, t_parser |-> t_parser, type_arg |-> type_arg, many |-> many,
     exclusions |-> exclusions, is_required |-> is_required,
     description |-> description]

FilterNames == {"id", "status", "tag"}

\* the keys parse never looks up in __filters__
ReservedKeys == <<"limit", "offset", "sort_by">>

Keys == FilterNames \cup {ReservedKeys[i] : i \in 1..Len(ReservedKeys)}

\* q_func callables: a kind and the document field the predicate is about
QEq(field) == [kind |-> "eq", field |-> field]

QIn(field) == [kind |-> "in", field |-> field]

QChecked(field) == [kind |-> "checked", field |-> field]

QMapped(field) == [kind |-> "mapped", field |-> field]

\* The __filters__ a class body may declare.  NsOrders is the registry of the
\* spec's end-to-end example: status required, id multi-valued and excluded by
\* status.
NsOrders ==
    << <<"status", Filter(QEq("status"), "int", "int", FALSE, <<>>, TRUE, "")>>,
       <<"id", Filter(QIn("_id"), "int", "int", TRUE, <<"status">>, FALSE, "ids")>> >>

NsTags ==
    << <<"tag", Filter(QIn("tags"), "identity", "str", TRUE, <<>>, TRUE, "")>>,
       <<"status", Filter(QEq("state"), "lookup", "str", FALSE, <<"tag">>, TRUE, "")>> >>

NsItems ==
    << <<"tag", Filter(QChecked("tags"), "identity", "str", TRUE, <<"sort_by">>, TRUE, "")>>,
       <<"sort_by", Filter(QEq("order"), "lookup", "str", FALSE, <<>>, FALSE, "")>> >>

\* Enum classes: class Color(str, Enum) with the values "a" and "1", and
\* class Level(IntEnum) with the values 0 and 1
ColorEnum == [name |-> "Color", base |-> "str", values |-> <<StrVal(<<"a">>), StrVal(<<"1">>)>>]

LevelEnum == [name |-> "Level", base |-> "int", values |-> <<IntVal(0), IntVal(1)>>]

\* a registry whose descriptors use the parsers of str_parsers.py, one each
NsProvided ==
    << <<"date", Filter(QEq("date"), "datetime", "datetime", FALSE, <<>>, FALSE, "")>>,
       <<"flag", Filter(QEq("flag"), "bool", "bool", FALSE, <<>>, FALSE, "")>>,
       <<"n", Filter(QEq("n"), "int", "int", FALSE, <<>>, FALSE, "")>>,
       <<"color", Filter(QEq("color"), "enum_color", "str", FALSE, <<>>, FALSE, "")>>,
       <<"level", Filter(QEq("level"), "enum_level", "int", FALSE, <<>>, FALSE, "")>> >>

\* a registry with exclusions in a circle: id and status exclude each other,
\* tag excludes itself
NsMutual ==
    << <<"id", Filter(QIn("_id"), "int", "int", TRUE, <<"status">>, FALSE, "")>>,
       <<"status", Filter(QEq("state"), "lookup", "str", FALSE, <<"id">>, TRUE, "")>>,
       <<"tag", Filter(QChecked("tags"), "identity", "str", TRUE, <<"tag">>, TRUE, "")>> >>

\* a registry whose predicate builders raise: tag's a ValueError, id's a
\* KeyError; status has a parser outside the contract
NsBuilders ==
    << <<"tag", Filter(QChecked("tags"), "identity", "str", TRUE, <<>>, FALSE, "")>>,
       <<"id", Filter(QMapped("owner"), "int", "int", FALSE, <<>>, FALSE, "")>>,
       <<"status", Filter(QEq("state"), "lookup", "str", FALSE, <<>>, FALSE, "")>> >>

\* a registry that declares required descriptors under the names parse skips,
\* beside an ordinary one
NsReserved ==
    << <<"limit", Filter(QEq("limit"), "int", "int", FALSE, <<>>, TRUE, "")>>,
       <<"offset", Filter(QEq("offset"), "identity", "str", FALSE, <<"id">>, TRUE, "")>>,
       <<"sort_by", Filter(QIn("order"), "identity", "str", TRUE, <<>>, TRUE, "")>>,
       <<"id", Filter(QIn("_id"), "int", "int", TRUE, <<>>, FALSE, "")>> >>

\* registries whose descriptors are Filter[Color] and Filter[Level]
NsColors ==
    << <<"color", Filter(QEq("color"), "enum_color", "Color", FALSE, <<"level">>, FALSE,
                         "colour")>> >>

NsLevels ==
    << <<"level", Filter(QEq("level"), "enum_level", "Level", FALSE, <<>>, TRUE, "")>> >>

\* class bodies: with a __filters__ attribute, or without one
Namespaces ==
    {<<>>} \cup {<< <<"__filters__", ns>> >> : ns \in {NsOrders, NsTags, NsItems}}

(***************************************************************************)
(* Value parsers (str_parsers.py) and the other t_parser callables.        *)
(***************************************************************************)
\* Filter.t_parser's default, lambda x: x
IdentityParser(v) == Returned(StrVal(v))

\* get_type_parser(int): int(v), every exception turned into a ValueError
TypeParserInt(v) ==
    IF IntAccepts(v) THEN Returned(IntVal(IntValue(v)))
    ELSE Raised(Exc("ValueError", 0, "Value is not correct for type int", NoNames, v))

\* a t_parser outside the contract: a dict lookup, KeyError on a miss
LookupParser(v) ==
    IF v = <<"1">> THEN Returned(StrVal(<<"o", "n", "e">>))
    ELSE Raised(Exc("KeyError", 0, "", NoNames, v))

IsAsciiDigit(c) == c \in {"0", "1"}

IsLeapYear(y) == y % 4 = 0 /\ (y % 100 # 0 \/ y % 400 = 0)

DaysInMonth(y, m) ==
    CASE m = 2 -> IF IsLeapYear(y) THEN 29 ELSE 28
      [] m \in {4, 6, 9, 11} -> 30
      [] OTHER -> 31

\* datetime.fromisoformat(v) for the form YYYY-MM-DD: ASCII digits, a year
\* from 1, a month from 1 to 12, a day of that month
IsIsoDate(v) ==
    /\ Len(v) = 10 /\ v[5] = "-" /\ v[8] = "-"
    /\ \A i \in {1, 2, 3, 4, 6, 7, 9, 10} : IsAsciiDigit(v[i])
    /\ DecimalValue(SubSeq(v, 1, 4)) >= 1
    /\ DecimalValue(SubSeq(v, 6, 7)) \in 1..12
    /\ DecimalValue(SubSeq(v, 9, 10))
          \in 1..DaysInMonth(DecimalValue(SubSeq(v, 1, 4)), DecimalValue(SubSeq(v, 6, 7)))

\* datetime_parser: every exception of fromisoformat turned into a ValueError
DatetimeParser(v) ==
    IF IsIsoDate(v)
    THEN Returned(DateVal(DecimalValue(SubSeq(v, 1, 4)), DecimalValue(SubSeq(v, 6, 7)),
                          DecimalValue(SubSeq(v, 9, 10))))
    ELSE Raised(Exc("ValueError", 0, "Field with date must be in ISO format", NoNames, <<>>))

\* bool_parser
BoolParser(v) ==
    IF v \notin {<<"f", "a", "l", "s", "e">>, <<"t", "r", "u", "e">>}
    THEN Raised(Exc("ValueError", 0, "Field with bool must be 'false' or 'true'",
                    NoNames, <<>>))
    ELSE Returned(BoolVal(v # <<"f", "a", "l", "s", "e">>))

\* ", ".join([e.value for e in enum]): a TypeError unless every value is a str
JoinValues(enum) ==
    IF \A i \in 1..Len(enum.values) : enum.values[i].t = "str"
    THEN Returned(ListVal(enum.values))
    ELSE Raised(Exc("TypeError", 0, "sequence item: expected str instance", NoNames, <<>>))

\* get_enum_parser(enum): enum(v), the member whose value equals the string
\* v; on its ValueError the message is built from the values of all members
EnumParser(enum, v) ==
    LET found == {i \in 1..Len(enum.values) :
                     enum.values[i].t = "str" /\ enum.values[i].v = v}
    IN IF found # {} THEN Returned(EnumVal(enum, enum.values[CHOOSE i \in found : TRUE]))
       ELSE IF JoinValues(enum).exc # NoExc THEN Raised(JoinValues(enum).exc)
       ELSE Raised(Exc("ValueError", 0, "Value is not a valid member of", NoNames, v))

T_parser(f, v) ==
    CASE f.t_parser = "identity" -> IdentityParser(v)
      [] f.t_parser = "int" -> TypeParserInt(v)
      [] f.t_parser = "datetime" -> DatetimeParser(v)
      [] f.t_parser = "bool" -> BoolParser(v)
      [] f.t_parser = "enum_color" -> EnumParser(ColorEnum, v)
      [] f.t_parser = "enum_level" -> EnumParser(LevelEnum, v)
      [] OTHER -> LookupParser(v)

(***************************************************************************)
(* Predicates and the q_func callables.                                    *)
(***************************************************************************)
Predicate(field, op, arg) == [field |-> field, op |-> op, arg |-> arg]

\* the dict {}
EmptyPredicate == Predicate("", "", StrVal(<<>>))

\* a q_func that refuses the tag "a" with a ValueError
CheckedRefuses(value) ==
    IF value.t = "list" THEN \E i \in 1..Len(value.v) : value.v[i] = StrVal(<<"a">>)
    ELSE value = StrVal(<<"a">>)

\* a q_func that looks its value up in a dict: KeyError on a miss
MappedRefuses(value) == value = IntVal(1)

Q_func(f, value) ==
    CASE f.q_func.kind = "eq" -> Returned(Predicate(f.q_func.field, "eq", value))
      [] f.q_func.kind = "in" -> Returned(Predicate(f.q_func.field, "in", value))
      [] f.q_func.kind = "mapped" ->
           IF MappedRefuses(value)
           THEN Raised(Exc("KeyError", 0, "", NoNames, <<>>))
           ELSE Returned(Predicate(f.q_func.field, "eq", value))
      [] OTHER ->
           IF CheckedRefuses(value)
           THEN Raised(Exc("ValueError", 0, "unsupported tag", NoNames, <<>>))
           ELSE Returned(Predicate(f.q_func.field, "in", value))

(***************************************************************************)
(* QPTranslatorMetaclass.__new__: the registry of a translator type.       *)
(***************************************************************************)
\* namespace.get("__filters__", {})
OwnFilters(namespace) ==
    IF DictHas(namespace, "__filters__") THEN DictGet(namespace, "__filters__")
    ELSE EmptyDict

\* variant, not the code: the bases folded from the last listed to the first
RECURSIVE InheritedFiltersFirstWins(_, _, _)
InheritedFiltersFirstWins(cs, bases, filters) ==
    IF bases = <<>> THEN filters
    ELSE InheritedFiltersFirstWins(cs, SubSeq(bases, 1, Len(bases) - 1),
                                   DictUpdate(filters, cs[bases[Len(bases)]].filters))

\* for base in bases: filters.update(base.__filters__.copy())
RECURSIVE InheritedFilters(_, _, _)
InheritedFilters(cs, bases, filters) ==
    IF bases = <<>> THEN filters
    ELSE InheritedFilters(cs, Tail(bases), DictUpdate(filters, cs[bases[1]].filters))

\* variant, not the code: the bases' descriptors applied last
MergedFiltersBasesLast(cs, bases, namespace) ==
    InheritedFilters(cs, bases, OwnFilters(namespace))

\* filters.update(namespace.get("__filters__", {}))
MergedFilters(cs, bases, namespace) ==
    DictUpdate(InheritedFilters(cs, bases, EmptyDict), OwnFilters(namespace))

\* variant, not the code: every name of the class statement's __filters__
RequiredFilterSetAll(namespace) ==
    LET own == OwnFilters(namespace) IN {own[i][1] : i \in 1..Len(own)}

\* [n for n, f in namespace.get("__filters__", {}).items() if f.is_required]
RequiredFilterSet(namespace) ==
    LET own == OwnFilters(namespace) IN
    {own[i][1] : i \in {j \in 1..Len(own) : own[j][2].is_required}}

\* issubclass(type_info, Enum), for the type argument of Filter[...]
IsEnumType(type_arg) == type_arg \in {"Color", "Level"}

EnumOf(type_arg) == IF type_arg = "Color" THEN ColorEnum ELSE LevelEnum

\* the value-type label: for an Enum the name of its first base and its
\* values, for any other type its __name__
TypeInfo(type_arg) ==
    IF IsEnumType(type_arg)
    THEN [name |-> EnumOf(type_arg).base, values |-> EnumOf(type_arg).values]
    ELSE [name |-> type_arg, values |-> <<>>]

\* the exception filter_info(f) raises, if any: the values of an Enum are
\* joined as strings
FilterInfoFailure(f) ==
    IF IsEnumType(f.type_arg) THEN JoinValues(EnumOf(f.type_arg)).exc ELSE NoExc

\* filter_info(f), under its <h3> heading; the description and the
\* exclusions are left out of the text when they are empty
FilterInfo(n, f) ==
    [name |-> n, description |-> f.description, value_type |-> TypeInfo(f.type_arg),
     many |-> f.many, is_required |-> f.is_required, exclusions |-> f.exclusions]

\* the exception the generator over __filters__ raises, if any: that of the
\* first filter whose filter_info raises
DocsFailure(filters) ==
    LET failing == {i \in 1..Len(filters) : FilterInfoFailure(filters[i][2]) # NoExc} IN
    IF failing = {} THEN NoExc
    ELSE FilterInfoFailure(filters[CHOOSE i \in failing : \A j \in failing : i <= j][2])

\* __docs__: "" without filters, else the heading and one entry per filter
Docs(filters) == [i \in 1..Len(filters) |-> FilterInfo(filters[i][1], filters[i][2])]

\* variant, not the code: the required names collected from the merged __filters__
NewClassRequiredOfMerged(cs, bases, namespace) ==
    LET filters == MergedFilters(cs, bases, namespace) IN
    [bases |-> bases, declared |-> OwnFilters(namespace), filters |-> filters,
     required |-> {filters[i][1] : i \in {j \in 1..Len(filters) : filters[j][2].is_required}},
     docs |-> Docs(filters)]

\* variant, not the code: the required flag in __docs__ is membership in
\* __required_filter_set__
NewClassDocsOfRequiredSet(cs, bases, namespace) ==
    LET filters == MergedFilters(cs, bases, namespace) IN
    [bases |-> bases, declared |-> OwnFilters(namespace), filters |-> filters,
     required |-> RequiredFilterSet(namespace),
     docs |-> [i \in 1..Len(filters) |->
                 [FilterInfo(filters[i][1], filters[i][2])
                     EXCEPT !.is_required = filters[i][1] \in RequiredFilterSet(namespace)]]]

\* The class the metaclass builds: __filters__, __required_filter_set__ and
\* __docs__, with the bases and the __filters__ of the class statement itself
\* kept beside them (declared) to state what was declared where.
NewClass(cs, bases, namespace) ==
    LET filters == MergedFilters(cs, bases, namespace) IN
    [bases |-> bases, declared |-> OwnFilters(namespace), filters |-> filters,
     required |-> RequiredFilterSet(namespace), docs |-> Docs(filters)]

\* class QPTranslator(metaclass=QPTranslatorMetaclass), with __filters__ = {}
QPTranslator == NewClass(<<>>, <<>>, << <<"__filters__", EmptyDict>> >>)

\* variant, not the code: the merged dict is the first base's own dict
DefineInPlace(cs, bases, namespace) ==
    Append([cs EXCEPT ![bases[1]].filters = MergedFilters(cs, bases, namespace)],
           NewClass(cs, bases, namespace))

\* The types after a class statement: the new type after the others, whose
\* dicts are untouched, each base's __filters__ being copied before it is
\* merged.
\* An exception of the documentation generator leaves the class statement
\* and no type is created.
Define(cs, bases, namespace) ==
    IF DocsFailure(MergedFilters(cs, bases, namespace)) # NoExc THEN cs
    ELSE Append(cs, NewClass(cs, bases, namespace))

RECURSIVE Ancestors(_, _)
Ancestors(cs, c) ==
    LET direct == {cs[c].bases[i] : i \in 1..Len(cs[c].bases)} IN
    direct \cup UNION {Ancestors(cs, b) : b \in direct}

\* The base lists type.__new__ accepts: no base twice, and no base listed
\* before one of its own subclasses (no consistent method resolution order).
BaseLists(cs) ==
    LET n == Len(cs) IN
    {b \in UNION {[1..k -> 1..n] : k \in 1..MaxBases} :
        \A i, j \in 1..Len(b) : i < j => b[i] # b[j] /\ b[i] \notin Ancestors(cs, b[j])}

(***************************************************************************)
(* starlette's QueryParams over the pairs of the query string: keys() are  *)
(* the distinct keys in order of first appearance, get(key) is the value   *)
(* of the last pair with that key, getlist(key) the values of all of them. *)
(***************************************************************************)
RECURSIVE QP_keys(_)
QP_keys(qps) ==
    IF qps = <<>> THEN <<>>
    ELSE LET front == QP_keys(SubSeq(qps, 1, Len(qps) - 1))
             k == qps[Len(qps)][1]
         IN IF \E i \in 1..Len(front) : front[i] = k THEN front ELSE Append(front, k)

QP_has(qps, key) == \E i \in 1..Len(qps) : qps[i][1] = key

\* variant, not the code: the values of the key, each once
QP_getlistDistinct(qps, key) ==
    LET at == {i \in 1..Len(qps) : qps[i][1] = key}
        F[i \in 0..Len(qps)] ==
            IF i = 0 THEN <<>>
            ELSE IF i \in at /\ \A j \in 1..Len(F[i - 1]) : F[i - 1][j] # qps[i][2]
                 THEN Append(F[i - 1], qps[i][2]) ELSE F[i - 1]
    IN F[Len(qps)]

QP_getlist(qps, key) ==
    LET at == {i \in 1..Len(qps) : qps[i][1] = key}
        F[i \in 0..Len(qps)] ==
            IF i = 0 THEN <<>>
            ELSE IF i \in at THEN Append(F[i - 1], qps[i][2]) ELSE F[i - 1]
    IN F[Len(qps)]

\* variant, not the code: the value of the first pair with that key
QP_getFirst(qps, key) ==
    LET l == QP_getlist(qps, key) IN l[1]

QP_get(qps, key) ==
    LET l == QP_getlist(qps, key) IN l[Len(l)]

(***************************************************************************)
(* QPTranslator.parse.  The log lists the t_parser and q_func calls of one *)
(* parse in the order they are made, each with its argument and outcome.   *)
(***************************************************************************)
LogEntry(op, name, arg, exc) == [op |-> op, name |-> name, arg |-> arg, exc |-> exc]

\* variant, not the code: limit and offset alone are skipped
IsReservedPaging(param) == param \in {"limit", "offset"}

\* param in ["limit", "offset", "sort_by"]
IsReserved(param) == \E i \in 1..Len(ReservedKeys) : ReservedKeys[i] = param

\* int(v) if v and v.isdigit() else None, for v = qps.get(key)
PageField(qps, key) ==
    IF ~QP_has(qps, key) THEN Returned(NoneVal)
    ELSE LET v == QP_get(qps, key) IN
         IF v # <<>> /\ IsDigit(v)
         THEN IF IntAccepts(v) THEN Returned(IntVal(IntValue(v)))
              ELSE Raised(Exc("ValueError", 0, "invalid literal for int() with base 10",
                              NoNames, v))
         ELSE Returned(NoneVal)

ParseResult(query_list, sort, limit, offset) ==
    [query_list |-> query_list, sort |-> sort, limit |-> limit, offset |-> offset]

NoResult == ParseResult(<<>>, <<>>, NoneVal, NoneVal)

\* variant, not the code: suppressed only when every exclusion is present
IsExcludedAll(f, qp_keys) ==
    \A i \in 1..Len(f.exclusions) : \E j \in 1..Len(qp_keys) : f.exclusions[i] = qp_keys[j]

\* for exclusion in f.exclusions: if exclusion in qp_keys
IsExcluded(f, qp_keys) ==
    \E i \in 1..Len(f.exclusions) : \E j \in 1..Len(qp_keys) : f.exclusions[i] = qp_keys[j]

\* [f.t_parser(p) for p in values], given up at the first exception
RECURSIVE ParseEach(_, _, _, _, _)
ParseEach(f, param, values, parsed, log) ==
    IF values = <<>> THEN [exc |-> NoExc, val |-> ListVal(parsed), log |-> log]
    ELSE LET r == T_parser(f, values[1])
             l == Append(log, LogEntry("t_parser", param, StrVal(values[1]), r.exc))
         IN IF r.exc # NoExc THEN [exc |-> r.exc, val |-> r.val, log |-> l]
            ELSE ParseEach(f, param, Tail(values), Append(parsed, r.val), l)

\* variant, not the code: a multi-valued key parsed from qps.get(param) alone
ParseValueOfGet(f, param, qps, log) ==
    IF f.many THEN ParseEach(f, param, <<QP_get(qps, param)>>, <<>>, log)
    ELSE LET r == T_parser(f, QP_get(qps, param)) IN
         [exc |-> r.exc, val |-> r.val,
          log |-> Append(log, LogEntry("t_parser", param, StrVal(QP_get(qps, param)), r.exc))]

\* f.t_parser(qps.get(param))
ParseOne(f, param, v, log) ==
    LET r == T_parser(f, v) IN
    [exc |-> r.exc, val |-> r.val,
     log |-> Append(log, LogEntry("t_parser", param, StrVal(v), r.exc))]

\* the try block of parse
ParseValue(f, param, qps, log) ==
    IF f.many THEN ParseEach(f, param, QP_getlist(qps, param), <<>>, log)
    ELSE ParseOne(f, param, QP_get(qps, param), log)

\* variant, not the code: one except clause, for Exception
TranslatedAll(e) == HTTPException(HTTP_400_BAD_REQUEST, e.head, e.names, e.value)

\* the except clauses of parse
Translated(e) ==
    IF e.type = "ValueError" THEN HTTPException(HTTP_400_BAD_REQUEST, e.head, e.names, e.value)
    ELSE Exc("Warning", 0, "t_parser can only raise a ValueError", NoNames, <<>>)

\* variant, not the code: q_func is called inside the try block
BuildPredicateTranslated(f, param, value, st) ==
    LET q == Q_func(f, value)
        l == Append(st.log, LogEntry("q_func", param, value, q.exc))
    IN IF q.exc # NoExc THEN [st EXCEPT !.log = l, !.exc = Translated(q.exc)]
       ELSE [st EXCEPT !.log = l, !.query = DictSet(@, param, q.val)]

\* query[param] = f.q_func(value)
BuildPredicate(f, param, value, st) ==
    LET q == Q_func(f, value)
        l == Append(st.log, LogEntry("q_func", param, value, q.exc))
    IN IF q.exc # NoExc THEN [st EXCEPT !.log = l, !.exc = q.exc]
       ELSE [st EXCEPT !.log = l, !.query = DictSet(@, param, q.val)]

\* variant, not the code: an unknown key raises at once
ParseParamUnknownRaises(filters, qps, qp_keys, param, st) ==
    IF IsReserved(param) \/ DictHas(st.query, param) THEN st
    ELSE IF ~DictHas(filters, param)
    THEN [st EXCEPT !.invalid_qps = @ \cup {param},
                    !.exc = HTTPException(HTTP_400_BAD_REQUEST, "Invalid query params",
                                          {param}, <<>>)]
    ELSE LET f == DictGet(filters, param) IN
         IF IsExcluded(f, qp_keys)
         THEN [st EXCEPT !.query = DictSet(@, param, EmptyPredicate)]
         ELSE LET pv == ParseValue(f, param, qps, st.log) IN
              IF pv.exc # NoExc
              THEN [st EXCEPT !.log = pv.log, !.exc = Translated(pv.exc)]
              ELSE BuildPredicate(f, param, pv.val, [st EXCEPT !.log = pv.log])

\* variant, not the code: a key is suppressed only by an exclusion that
\* comes before it among the keys
ParseParamExcludedByEarlier(filters, qps, qp_keys, param, st) ==
    IF IsReserved(param) \/ DictHas(st.query, param) THEN st
    ELSE IF ~DictHas(filters, param)
    THEN [st EXCEPT !.invalid_qps = @ \cup {param}]
    ELSE LET f == DictGet(filters, param)
             place == CHOOSE i \in 1..Len(qp_keys) : qp_keys[i] = param
         IN
         IF IsExcluded(f, SubSeq(qp_keys, 1, place - 1))
         THEN [st EXCEPT !.query = DictSet(@, param, EmptyPredicate)]
         ELSE LET pv == ParseValue(f, param, qps, st.log) IN
              IF pv.exc # NoExc
              THEN [st EXCEPT !.log = pv.log, !.exc = Translated(pv.exc)]
              ELSE BuildPredicate(f, param, pv.val, [st EXCEPT !.log = pv.log])

\* variant, not the code: a reserved name that is registered is looked up
ParseParamReservedRegistered(filters, qps, qp_keys, param, st) ==
    IF (IsReserved(param) /\ ~DictHas(filters, param)) \/ DictHas(st.query, param) THEN st
    ELSE IF ~DictHas(filters, param)
    THEN [st EXCEPT !.invalid_qps = @ \cup {param}]
    ELSE LET f == DictGet(filters, param) IN
         IF IsExcluded(f, qp_keys)
         THEN [st EXCEPT !.query = DictSet(@, param, EmptyPredicate)]
         ELSE LET pv == ParseValue(f, param, qps, st.log) IN
              IF pv.exc # NoExc
              THEN [st EXCEPT !.log = pv.log, !.exc = Translated(pv.exc)]
              ELSE BuildPredicate(f, param, pv.val, [st EXCEPT !.log = pv.log])

\* variant, not the code: a suppressed key is skipped without an entry in query
ParseParamDropSuppressed(filters, qps, qp_keys, param, st) ==
    IF IsReserved(param) \/ DictHas(st.query, param) THEN st
    ELSE IF ~DictHas(filters, param)
    THEN [st EXCEPT !.invalid_qps = @ \cup {param}]
    ELSE LET f == DictGet(filters, param) IN
         IF IsExcluded(f, qp_keys) THEN st
         ELSE LET pv == ParseValue(f, param, qps, st.log) IN
              IF pv.exc # NoExc
              THEN [st EXCEPT !.log = pv.log, !.exc = Translated(pv.exc)]
              ELSE BuildPredicate(f, param, pv.val, [st EXCEPT !.log = pv.log])

\* one turn of the loop over qp_keys
ParseParam(filters, qps, qp_keys, param, st) ==
    IF IsReserved(param) \/ DictHas(st.query, param) THEN st
    ELSE IF ~DictHas(filters, param)
    THEN [st EXCEPT !.invalid_qps = @ \cup {param}]
    ELSE LET f == DictGet(filters, param) IN
         IF IsExcluded(f, qp_keys)
         THEN [st EXCEPT !.query = DictSet(@, param, EmptyPredicate)]
         ELSE LET pv == ParseValue(f, param, qps, st.log) IN
              IF pv.exc # NoExc
              THEN [st EXCEPT !.log = pv.log, !.exc = Translated(pv.exc)]
              ELSE BuildPredicate(f, param, pv.val, [st EXCEPT !.log = pv.log])

\* variant, not the code: the first failure is kept and the loop goes on to the last key
RECURSIVE ParseLoopOn(_, _, _, _, _)
ParseLoopOn(filters, qps, qp_keys, i, st) ==
    IF i > Len(qp_keys) THEN st
    ELSE LET next == ParseParam(filters, qps, qp_keys, qp_keys[i], [st EXCEPT !.exc = NoExc])
         IN ParseLoopOn(filters, qps, qp_keys, i + 1,
                        IF st.exc # NoExc THEN [next EXCEPT !.exc = st.exc] ELSE next)

RECURSIVE ParseLoop(_, _, _, _, _)
ParseLoop(filters, qps, qp_keys, i, st) ==
    IF i > Len(qp_keys) \/ st.exc # NoExc THEN st
    ELSE ParseLoop(filters, qps, qp_keys, i + 1,
                   ParseParam(filters, qps, qp_keys, qp_keys[i], st))

\* variant, not the code: a required name also counts as resolved when a
\* name of its exclusions is resolved
CheckRequiredFiltersOrExcluded(cls, existing_filters) ==
    LET excluded == {n \in cls.required :
                        \E i \in 1..Len(DictGet(cls.filters, n).exclusions) :
                           DictGet(cls.filters, n).exclusions[i] \in existing_filters}
        missing == (cls.required \ existing_filters) \ excluded
    IN IF missing # {}
       THEN HTTPException(HTTP_400_BAD_REQUEST, "Required query params", missing, <<>>)
       ELSE NoExc

\* variant, not the code: the message lists the whole required set
CheckRequiredFiltersAll(cls, existing_filters) ==
    IF cls.required \ existing_filters # {}
    THEN HTTPException(HTTP_400_BAD_REQUEST, "Required query params", cls.required, <<>>)
    ELSE NoExc

\* _check_required_filters(existing_filters): the exception it raises, if any
CheckRequiredFilters(cls, existing_filters) ==
    IF cls.required = {} THEN NoExc
    ELSE IF cls.required \ existing_filters # {}
    THEN HTTPException(HTTP_400_BAD_REQUEST, "Required query params",
                       cls.required \ existing_filters, <<>>)
    ELSE NoExc

\* variant, not the code: the error names one unknown key only
CheckInvalidFirst(invalid_qps) ==
    IF invalid_qps # {}
    THEN HTTPException(HTTP_400_BAD_REQUEST, "Invalid query params",
                       {CHOOSE n \in invalid_qps : TRUE}, <<>>)
    ELSE NoExc

\* if invalid_qps: raise HTTPException(...)
CheckInvalid(invalid_qps) ==
    IF invalid_qps # {}
    THEN HTTPException(HTTP_400_BAD_REQUEST, "Invalid query params", invalid_qps, <<>>)
    ELSE NoExc

LocalState(query, invalid_qps, log, exc) ==
    [query |-> query, invalid_qps |-> invalid_qps, log |-> log, exc |-> exc]

\* variant, not the code: query and invalid_qps live on from the call before
StartLocalsKept == LocalState(before.query, before.invalid_qps, <<>>, NoExc)

\* query = {}; invalid_qps = set(): new objects in every call
StartLocals == LocalState(EmptyDict, {}, <<>>, NoExc)

\* what a call on class c leaves with its caller: for parse the outcome and
\* the locals at the time, for get_docs the string returned
CallRecord(c, qps, st, exc, result) ==
    [op |-> "parse", cls |-> c, qps |-> qps, query |-> st.query,
     invalid_qps |-> st.invalid_qps, log |-> st.log, exc |-> exc, result |-> result,
     docs |-> <<>>]

\* parse(cls, qps), from its first line to its return or raise
Parse(cs, c, qps) ==
    LET limit == PageField(qps, "limit")
        offset == PageField(qps, "offset")
        sort == QP_getlist(qps, "sort_by")
        start == StartLocals
    IN
    IF limit.exc # NoExc THEN CallRecord(c, qps, start, limit.exc, NoResult)
    ELSE IF offset.exc # NoExc THEN CallRecord(c, qps, start, offset.exc, NoResult)
    ELSE LET st == ParseLoop(cs[c].filters, qps, QP_keys(qps), 1, start) IN
         IF st.exc # NoExc THEN CallRecord(c, qps, st, st.exc, NoResult)
         ELSE IF CheckInvalid(st.invalid_qps) # NoExc
         THEN CallRecord(c, qps, st, CheckInvalid(st.invalid_qps), NoResult)
         ELSE IF CheckRequiredFilters(cs[c], DictKeySet(st.query)) # NoExc
         THEN CallRecord(c, qps, st, CheckRequiredFilters(cs[c], DictKeySet(st.query)),
                         NoResult)
         ELSE CallRecord(c, qps, st, NoExc,
                         ParseResult(DictValues(st.query), sort, limit.val, offset.val))

(***************************************************************************)
(* parse one step at a time, for calls that run beside each other: a call  *)
(* is the frame of one invocation, with its class, its request, the place  *)
(* of the loop and its locals.                                             *)
(***************************************************************************)
Run(c, qps, i, st, done, outcome) ==
    [cls |-> c, qps |-> qps, i |-> i, st |-> st, done |-> done, outcome |-> outcome]

\* the exception of int(limit) or int(offset), if any
PageFailure(qps) ==
    IF PageField(qps, "limit").exc # NoExc THEN PageField(qps, "limit").exc
    ELSE PageField(qps, "offset").exc

\* parse up to the loop: the ParseResult of the pagination values and the
\* sort, then the empty locals
BeginRun(c, qps) ==
    IF PageFailure(qps) # NoExc
    THEN Run(c, qps, 1, StartLocals, TRUE,
             CallRecord(c, qps, StartLocals, PageFailure(qps), NoResult))
    ELSE Run(c, qps, 1, StartLocals, FALSE,
             CallRecord(0, <<>>, LocalState(EmptyDict, {}, <<>>, NoExc), NoExc, NoResult))

\* variant, not the code: query and invalid_qps are those of the first call
LocalsOfFirst(run, t) == run[1].st

\* the locals a call works on: those of its own frame
LocalsOf(run, t) == run[t].st

\* one turn of the loop in call t
StepRun(cs, run, t) ==
    LET r == run[t] IN
    [r EXCEPT !.st = ParseParam(cs[r.cls].filters, r.qps, QP_keys(r.qps),
                                QP_keys(r.qps)[r.i], LocalsOf(run, t)),
              !.i = r.i + 1]

\* parse from the end of the loop, or from the exception raised in it
Conclude(cs, c, qps, st) ==
    IF st.exc # NoExc THEN CallRecord(c, qps, st, st.exc, NoResult)
    ELSE IF CheckInvalid(st.invalid_qps) # NoExc
    THEN CallRecord(c, qps, st, CheckInvalid(st.invalid_qps), NoResult)
    ELSE IF CheckRequiredFilters(cs[c], DictKeySet(st.query)) # NoExc
    THEN CallRecord(c, qps, st, CheckRequiredFilters(cs[c], DictKeySet(st.query)), NoResult)
    ELSE CallRecord(c, qps, st, NoExc,
                    ParseResult(DictValues(st.query), QP_getlist(qps, "sort_by"),
                                PageField(qps, "limit").val, PageField(qps, "offset").val))

EndRun(cs, run, t) ==
    LET r == run[t] IN
    [r EXCEPT !.st = LocalsOf(run, t), !.done = TRUE,
              !.outcome = Conclude(cs, r.cls, r.qps, LocalsOf(run, t))]

\* get_docs(cls): return cls.__docs__
GetDocsOf(cs, c) ==
    [CallRecord(c, <<>>, LocalState(EmptyDict, {}, <<>>, NoExc), NoExc, NoResult)
        EXCEPT !.op = "get_docs", !.docs = cs[c].docs]

(***************************************************************************)
(* The state: the translator types defined so far, and the parse call      *)
(* whose outcome its caller is holding, with what the call left behind.    *)
(* parse never suspends, so a call is one step; its caller then takes the  *)
(* outcome (Return) before the program goes on.                            *)
(***************************************************************************)
NoCall == CallRecord(0, <<>>, LocalState(EmptyDict, {}, <<>>, NoExc), NoExc, NoResult)

\* the values given to filter keys, and the query strings checked against
\* the filters
FilterValues == {<<"1">>, <<"a">>}

RECURSIVE SeqsUpTo(_, _)
SeqsUpTo(S, n) ==
    IF n = 0 THEN {<<>>}
    ELSE LET shorter == SeqsUpTo(S, n - 1) IN
         shorter \cup {Append(s, x) : s \in shorter, x \in S}

\* every key with every filter value, and a limit that str.isdigit accepts
\* and int refuses
RequestPairs == (Keys \X FilterValues) \cup {<<"limit", <<"sup2">>>>}

Requests == SeqsUpTo(RequestPairs, MaxLen)

\* the pagination values, and the query strings of pagination keys
PageValues == SeqsUpTo(Chars, MaxValLen)

PageRequests == SeqsUpTo({"limit", "offset"} \X PageValues, MaxPageLen)

\* no call in progress
IdleRun == Run(0, <<>>, 0, LocalState(EmptyDict, {}, <<>>, NoExc), FALSE, NoCall)

Calls == 1..MaxCalls

Init ==
    /\ classes = <<QPTranslator>>
    /\ call = NoCall
    /\ before = NoCall
    /\ running = [t \in Calls |-> IdleRun]

\* a class statement whose metaclass is QPTranslatorMetaclass
DefineType ==
    /\ call = NoCall
    /\ Len(classes) < MaxClasses
    /\ \E bases \in BaseLists(classes), namespace \in Namespaces :
          classes' = Define(classes, bases, namespace)
    /\ UNCHANGED <<call, before, running>>

\* await cls.parse(qps)
ParseCall ==
    /\ call = NoCall
    /\ \E c \in 1..Len(classes), qps \in Requests : call' = Parse(classes, c, qps)
    /\ UNCHANGED <<classes, before, running>>

\* the caller has the ParseResult, or has handled the exception
Return ==
    /\ call # NoCall
    /\ call' = NoCall
    /\ UNCHANGED <<classes, before, running>>

Next == DefineType \/ ParseCall \/ Return

Spec == Init /\ [][Next]_vars

\* parse of pagination values, on QPTranslator itself
ParsePage ==
    /\ call = NoCall
    /\ \E qps \in PageRequests : call' = Parse(classes, 1, qps)
    /\ UNCHANGED <<classes, before, running>>

NextPage == ParsePage \/ Return

SpecPage == Init /\ [][NextPage]_vars

\* Type definitions four deep, so that one type can list two bases that
\* both declare filters, with short requests to each type.
TypeRequests == SeqsUpTo(RequestPairs, MaxTypeLen)

DefineMore ==
    /\ call = NoCall
    /\ Len(classes) < MaxTypes
    /\ \E bases \in BaseLists(classes), namespace \in Namespaces :
          classes' = Define(classes, bases, namespace)
    /\ UNCHANGED <<call, before, running>>

ParseShort ==
    /\ call = NoCall
    /\ \E c \in 1..Len(classes), qps \in TypeRequests : call' = Parse(classes, c, qps)
    /\ UNCHANGED <<classes, before, running>>

\* cls.get_docs()
GetDocs ==
    /\ call = NoCall
    /\ \E c \in 1..Len(classes) : call' = GetDocsOf(classes, c)
    /\ UNCHANGED <<classes, before, running>>

NextTypes == DefineMore \/ ParseShort \/ GetDocs \/ Return

SpecTypes == Init /\ [][NextTypes]_vars

\* The same request given twice to the same type: the caller keeps the
\* outcome of the first call (before) and calls parse again, types being
\* defined at any time in between.
TwiceRequests == SeqsUpTo(RequestPairs, MaxTwiceLen)

\* await cls.parse(qps): with any request, or, when the caller holds the
\* outcome of a call, with the type and the request of that call
ParseRequest ==
    /\ call = NoCall
    /\ \E c \in 1..Len(classes), qps \in TwiceRequests :
          /\ before # NoCall => (c = before.cls /\ qps = before.qps)
          /\ call' = Parse(classes, c, qps)
    /\ UNCHANGED <<classes, before, running>>

Keep ==
    /\ call # NoCall /\ before = NoCall
    /\ before' = call
    /\ call' = NoCall
    /\ UNCHANGED <<classes, running>>

Forget ==
    /\ call # NoCall /\ before # NoCall
    /\ call' = NoCall
    /\ before' = NoCall
    /\ UNCHANGED <<classes, running>>

NextTwice == DefineType \/ ParseRequest \/ Keep \/ Forget

SpecTwice == Init /\ [][NextTwice]_vars

\* The parsers of str_parsers.py: one type whose descriptors use one each,
\* and requests of one pair, its value any short string or one of a few
\* longer ones.
ProvidedType == << <<"__filters__", NsProvided>> >>

ProvidedValues ==
    PageValues \cup
    { <<"t", "r", "u", "e">>, <<"f", "a", "l", "s", "e">>, <<"T", "r", "u", "e">>,
      <<"0", "0", "0", "1", "-", "0", "1", "-", "1", "1">>,
      <<"0", "0", "0", "1", "-", "0", "0", "-", "1", "1">>,
      <<"0", "0", "0", "0", "-", "0", "1", "-", "0", "1">>,
      <<"0", "0", "0", "1", " ", "0", "1", "-", "0", "1">> }

ProvidedRequests == {<< <<DictKeys(NsProvided)[i], v>> >> : i \in 1..Len(NsProvided), v \in ProvidedValues}

InitParsers ==
    /\ classes = Define(<<QPTranslator>>, <<1>>, ProvidedType)
    /\ call = NoCall
    /\ before = NoCall
    /\ running = [t \in Calls |-> IdleRun]

ParseProvided ==
    /\ call = NoCall
    /\ \E qps \in ProvidedRequests : call' = Parse(classes, 2, qps)
    /\ UNCHANGED <<classes, before, running>>

NextParsers == ParseProvided \/ Return

SpecParsers == InitParsers /\ [][NextParsers]_vars

\* Type definitions with descriptors of Enum types among them, the outcome
\* of each class statement kept in `call`, and get_docs.
DocNamespaces ==
    Namespaces \cup {<< <<"__filters__", ns>> >> : ns \in {NsColors, NsLevels}}

\* what a class statement leaves: the new type, or the exception raised
DefineOutcome(cs, bases, namespace) ==
    LET failure == DocsFailure(MergedFilters(cs, bases, namespace)) IN
    [CallRecord(IF failure # NoExc THEN 0 ELSE Len(cs) + 1, <<>>,
                LocalState(EmptyDict, {}, <<>>, NoExc), failure, NoResult)
        EXCEPT !.op = "define",
               !.docs = IF failure # NoExc THEN <<>>
                        ELSE NewClass(cs, bases, namespace).docs]

DefineDoc ==
    /\ call = NoCall
    /\ Len(classes) < MaxDocTypes
    /\ \E bases \in BaseLists(classes), namespace \in DocNamespaces :
          /\ classes' = Define(classes, bases, namespace)
          /\ call' = DefineOutcome(classes, bases, namespace)
    /\ UNCHANGED <<before, running>>

NextDocs == DefineDoc \/ GetDocs \/ Return

SpecDocs == Init /\ [][NextDocs]_vars

\* parse calls beside each other, their steps in any order, on a type with
\* the registry of NsOrders and on a subtype of it that adds that of NsItems
CallPairs ==
    ({"id", "status", "tag"} \X FilterValues)
       \cup {<<"limit", <<"sup2">>>>, <<"sort_by", <<"1">>>>}

CallRequests == SeqsUpTo(CallPairs, MaxCallLen)

InitCalls ==
    /\ classes = Define(Define(<<QPTranslator>>, <<1>>, << <<"__filters__", NsOrders>> >>),
                        <<2>>, << <<"__filters__", NsItems>> >>)
    /\ call = NoCall
    /\ before = NoCall
    /\ running = [t \in Calls |-> IdleRun]

Begin ==
    /\ \E t \in Calls, c \in 2..Len(classes), qps \in CallRequests :
          /\ running[t] = IdleRun
          /\ running' = [running EXCEPT ![t] = BeginRun(c, qps)]
    /\ UNCHANGED <<classes, call, before>>

LoopStep ==
    /\ \E t \in Calls :
          /\ running[t] # IdleRun /\ ~running[t].done
          /\ running[t].i <= Len(QP_keys(running[t].qps))
          /\ LocalsOf(running, t).exc = NoExc
          /\ running' = [running EXCEPT ![t] = StepRun(classes, running, t)]
    /\ UNCHANGED <<classes, call, before>>

Finish ==
    /\ \E t \in Calls :
          /\ running[t] # IdleRun /\ ~running[t].done
          /\ running[t].i > Len(QP_keys(running[t].qps)) \/ LocalsOf(running, t).exc # NoExc
          /\ running' = [running EXCEPT ![t] = EndRun(classes, running, t)]
    /\ UNCHANGED <<classes, call, before>>

\* the caller of call t has its outcome
Take ==
    /\ \E t \in Calls :
          /\ running[t].done
          /\ running' = [running EXCEPT ![t] = IdleRun]
    /\ UNCHANGED <<classes, call, before>>

NextCalls == Begin \/ LoopStep \/ Finish \/ Take

SpecCalls == InitCalls /\ [][NextCalls]_vars

\* parse on a type whose descriptors exclude each other and themselves
InitMutual ==
    /\ classes = Define(<<QPTranslator>>, <<1>>, << <<"__filters__", NsMutual>> >>)
    /\ call = NoCall
    /\ before = NoCall
    /\ running = [t \in Calls |-> IdleRun]

ParseMutual ==
    /\ call = NoCall
    /\ \E qps \in Requests : call' = Parse(classes, 2, qps)
    /\ UNCHANGED <<classes, before, running>>

NextMutual == ParseMutual \/ Return

SpecMutual == InitMutual /\ [][NextMutual]_vars

\* parse on a type that declares required descriptors under reserved names,
\* and on a subtype of it that declares other descriptors
InitReserved ==
    /\ classes = Define(Define(<<QPTranslator>>, <<1>>, << <<"__filters__", NsReserved>> >>),
                        <<2>>, << <<"__filters__", NsOrders>> >>)
    /\ call = NoCall
    /\ before = NoCall
    /\ running = [t \in Calls |-> IdleRun]

ParseReserved ==
    /\ call = NoCall
    /\ \E c \in 2..Len(classes), qps \in Requests : call' = Parse(classes, c, qps)
    /\ UNCHANGED <<classes, before, running>>

NextReserved == ParseReserved \/ Return

SpecReserved == InitReserved /\ [][NextReserved]_vars

\* parse on a type whose predicate builders raise
InitBuilders ==
    /\ classes = Define(<<QPTranslator>>, <<1>>, << <<"__filters__", NsBuilders>> >>)
    /\ call = NoCall
    /\ before = NoCall
    /\ running = [t \in Calls |-> IdleRun]

ParseBuilders ==
    /\ call = NoCall
    /\ \E qps \in Requests : call' = Parse(classes, 2, qps)
    /\ UNCHANGED <<classes, before, running>>

NextBuilders == ParseBuilders \/ Return

SpecBuilders == InitBuilders /\ [][NextBuilders]_vars

(***************************************************************************)
(* What the properties below read off the call held in `call`.             *)
(***************************************************************************)
\* the caller holds the outcome of a parse call
Called == call # NoCall /\ call.op = "parse"

CallClass == classes[call.cls]

CallKeys == {call.qps[i][1] : i \in 1..Len(call.qps)}

\* the place of a key among the distinct keys of the request
KeyPlace(p) == CHOOSE i \in 1..Len(QP_keys(call.qps)) : QP_keys(call.qps)[i] = p

\* the place of a resolved key in the query dict
QueryPlace(p) == CHOOSE i \in 1..Len(call.query) : call.query[i][1] = p

\* the values given under a key, first to last
ValuesOf(p) ==
    LET at(n) == CHOOSE i \in 1..Len(call.qps) :
                    /\ call.qps[i][1] = p
                    /\ Cardinality({j \in 1..i : call.qps[j][1] = p}) = n
    IN [n \in 1..Cardinality({i \in 1..Len(call.qps) : call.qps[i][1] = p}) |->
           call.qps[at(n)][2]]

\* a key parse looks up and finds in the registry of the class
Registered(p) == p \notin {"limit", "offset", "sort_by"} /\ DictHas(CallClass.filters, p)

Unknown(p) == p \notin {"limit", "offset", "sort_by"} /\ ~DictHas(CallClass.filters, p)

Descriptor(p) == DictGet(CallClass.filters, p)

ExclusionSet(p) == {Descriptor(p).exclusions[i] : i \in 1..Len(Descriptor(p).exclusions)}

\* a registered key of the request with one of its exclusions in the request
Suppressed(p) == Registered(p) /\ p \in CallKeys /\ ExclusionSet(p) \cap CallKeys # {}

LogAt(op, p) == {i \in 1..Len(call.log) : call.log[i].op = op /\ call.log[i].name = p}

\* int(limit) or int(offset) raised
PageFailed ==
    call.exc.type = "ValueError" /\ call.exc.head = "invalid literal for int() with base 10"

ParserFailed == \E i \in 1..Len(call.log) : call.log[i].op = "t_parser" /\ call.log[i].exc # NoExc

BuilderFailed == \E i \in 1..Len(call.log) : call.log[i].op = "q_func" /\ call.log[i].exc # NoExc

\* the loop over the keys ran to its end
LoopCompleted == Called /\ ~PageFailed /\ ~ParserFailed /\ ~BuilderFailed

\* p was parsed and its predicate built from the parsed value
BuiltNormally(p) ==
    /\ DictHas(call.query, p)
    /\ DictGet(call.query, p) # EmptyPredicate
    /\ \E i \in LogAt("t_parser", p), j \in LogAt("q_func", p) :
          /\ i < j
          /\ call.log[i].exc = NoExc
          /\ call.log[j].exc = NoExc
          /\ DictGet(call.query, p) = Q_func(Descriptor(p), call.log[j].arg).val

(***************************************************************************)
(* C1: a registered key of the request that has one of its exclusions in   *)
(* the request gets the empty predicate {}: its t_parser and q_func are    *)
(* never called, the conflict raises nothing, and a key it names that is   *)
(* not itself suppressed is parsed and built as usual.                     *)
(***************************************************************************)
C1_SuppressedIsEmptyPredicate ==
    Called =>
      /\ \A p \in CallKeys : Suppressed(p) =>
            /\ LogAt("t_parser", p) = {} /\ LogAt("q_func", p) = {}
            /\ DictHas(call.query, p) => DictGet(call.query, p) = EmptyPredicate
            /\ LoopCompleted => DictHas(call.query, p)
            /\ \A b \in ExclusionSet(p) \cap CallKeys :
                  Registered(b) /\ ~Suppressed(b) /\ LoopCompleted => BuiltNormally(b)
      /\ (~PageFailed /\ \A p \in CallKeys : Registered(p) => Suppressed(p))
            => call.exc.head \in {"", "Invalid query params", "Required query params"}

\* id=a with status=1 on the registry of NsOrders: id is suppressed although
\* its parser refuses "a", status is built, the call succeeds
C1_Witness ==
    /\ Called /\ call.exc = NoExc
    /\ \E p \in CallKeys :
          /\ Suppressed(p)
          /\ \E i \in 1..Len(ValuesOf(p)) : T_parser(Descriptor(p), ValuesOf(p)[i]).exc # NoExc
          /\ \E b \in ExclusionSet(p) \cap CallKeys : BuiltNormally(b)

NoUnknownKey == \A p \in CallKeys : ~Unknown(p)

\* the names declared on the class itself with is_required set
DeclaredRequired(c) ==
    {n \in DictKeySet(c.declared) : DictGet(c.declared, n).is_required}

RequiredError(names) == HTTPException(400, "Required query params", names, <<>>)

(***************************************************************************)
(* C2, as claimed: in a call where no parser fails and no unknown name     *)
(* occurs, a required descriptor of the merged registry that was not       *)
(* resolved makes parse fail with 'Required query params' listing exactly  *)
(* the unresolved required names.  (Stated for the calls in which nothing  *)
(* else raised either.)  It fails for a required descriptor the type       *)
(* inherits and does not declare again.                                    *)
(***************************************************************************)
C2_RequiredOfMergedRegistry ==
    (LoopCompleted /\ NoUnknownKey) =>
       LET missing == {n \in DictKeySet(CallClass.filters) :
                          DictGet(CallClass.filters, n).is_required
                          /\ ~DictHas(call.query, n)}
       IN missing # {} => call.exc = RequiredError(missing)

(***************************************************************************)
(* C2, amended: in a call that reaches the required check (nothing raised  *)
(* before it, no unknown name), parse fails with 'Required query params'   *)
(* exactly when a required name declared on the type itself was not        *)
(* resolved, and the error lists exactly those names; with no parameters   *)
(* and a declared required status, it names status.                        *)
(***************************************************************************)
C2_RequiredOfDeclared ==
    (LoopCompleted /\ NoUnknownKey) =>
       LET missing == DeclaredRequired(CallClass) \ DictKeySet(call.query) IN
       /\ missing # {} => call.exc = RequiredError(missing)
       /\ missing = {} => call.exc = NoExc
       /\ (call.qps = <<>> /\ "status" \in DeclaredRequired(CallClass))
             => call.exc.head = "Required query params" /\ "status" \in call.exc.names

\* two required names declared, one of them resolved: the error names the other
C2_Witness ==
    /\ LoopCompleted /\ NoUnknownKey
    /\ call.exc.head = "Required query params"
    /\ call.query # EmptyDict
    /\ call.exc.names # DeclaredRequired(CallClass)

(***************************************************************************)
(* C3: a required key of the request that is suppressed by an exclusion    *)
(* counts as resolved: the missing-required error never lists it, and when *)
(* it is the only required name the required check passes.  On the         *)
(* registry {status: required, id: multi, excludes status} the request     *)
(* id=1&id=1&status=1 succeeds, id's predicate empty, status's built.      *)
(***************************************************************************)
C3_SuppressedCountsAsResolved ==
    Called =>
      /\ \A p \in CallKeys : (Suppressed(p) /\ Descriptor(p).is_required) =>
            /\ ~(call.exc.head = "Required query params" /\ p \in call.exc.names)
            /\ (LoopCompleted /\ NoUnknownKey /\ CallClass.required = {p})
                  => /\ call.exc = NoExc
                     /\ call.result.query_list[QueryPlace(p)] = EmptyPredicate
      /\ (CallClass.filters = NsOrders /\ CallClass.required = {"status"}
          /\ call.qps = << <<"id", <<"1">> >>, <<"id", <<"1">> >>, <<"status", <<"1">> >> >>)
            => /\ call.exc = NoExc
               /\ call.result.query_list =
                     <<EmptyPredicate, Predicate("status", "eq", IntVal(1))>>

\* the only required name is in the request, suppressed, and the call succeeds
C3_Witness ==
    /\ Called /\ call.exc = NoExc
    /\ \E p \in CallKeys : Suppressed(p) /\ CallClass.required = {p}

(***************************************************************************)
(* C4: the required-name set of a type is exactly the names it declares    *)
(* itself with is_required set; an inherited required descriptor that the  *)
(* type does not declare again is never reported missing, and a subtype    *)
(* that declares nothing has no required names at all.                     *)
(***************************************************************************)
C4_RequiredSetIsDeclaredOnly ==
    /\ \A c \in 1..Len(classes) : classes[c].required = DeclaredRequired(classes[c])
    /\ Called =>
          /\ call.exc.head = "Required query params"
                => call.exc.names \subseteq DictKeySet(CallClass.declared)
          /\ (LoopCompleted /\ NoUnknownKey /\ CallClass.declared = EmptyDict)
                => call.exc = NoExc

\* a successful call on a subtype that inherits a required descriptor, does
\* not declare it again, and is given no value for it
C4_Witness ==
    /\ Called /\ call.exc = NoExc
    /\ CallClass.bases # <<>>
    /\ \E n \in DictKeySet(CallClass.filters) :
          /\ DictGet(CallClass.filters, n).is_required
          /\ ~DictHas(CallClass.declared, n)
          /\ n \notin CallKeys

\* the keys of the request that parse looks up in the registry
FilterKeys == {p \in CallKeys : p \notin {"limit", "offset", "sort_by"}}

Processed(p) == DictHas(call.query, p) \/ p \in call.invalid_qps

Untouched(p) ==
    /\ ~Processed(p)
    /\ LogAt("t_parser", p) = {} /\ LogAt("q_func", p) = {}

(***************************************************************************)
(* C5: when a t_parser call raises ValueError, parse raises at once an     *)
(* HTTPException 400 whose detail is that parser's message: it is the last *)
(* call parse makes, every call before it succeeded, the keys before the   *)
(* failing one were all processed and the keys after it are untouched, of  *)
(* a multi-valued key no value after the rejected one is parsed, and the   *)
(* unknown names found so far are not part of the error.                   *)
(***************************************************************************)
C5_InvalidValueFailsFast ==
    Called => \A i \in 1..Len(call.log) :
       (call.log[i].op = "t_parser" /\ call.log[i].exc.type = "ValueError") =>
          LET p == call.log[i].name
              n == Cardinality(LogAt("t_parser", p))
          IN /\ i = Len(call.log)
             /\ \A j \in 1..(i - 1) : call.log[j].exc = NoExc
             /\ call.exc = HTTPException(400, call.log[i].exc.head, {}, call.log[i].exc.value)
             /\ call.result = NoResult
             /\ ~DictHas(call.query, p)
             /\ \A k \in FilterKeys :
                   /\ KeyPlace(k) < KeyPlace(p) => Processed(k)
                   /\ KeyPlace(k) > KeyPlace(p) => Untouched(k)
             /\ call.log[i].arg = StrVal(ValuesOf(p)[IF Descriptor(p).many THEN n
                                                     ELSE Len(ValuesOf(p))])
             /\ Descriptor(p).many =>
                   \A m \in 1..(n - 1) : T_parser(Descriptor(p), ValuesOf(p)[m]).exc = NoExc

\* a key whose value is rejected, and after it a registered key that would
\* have been parsed
C5_Witness ==
    /\ Called /\ call.exc.type = "HTTPException"
    /\ \E i \in 1..Len(call.log) : call.log[i].exc.type = "ValueError"
    /\ \E k \in FilterKeys : Registered(k) /\ ~Suppressed(k) /\ Untouched(k)

UnknownError(names) == HTTPException(400, "Invalid query params", names, <<>>)

(***************************************************************************)
(* C6, as claimed: when the request has unknown keys and no parser fails,  *)
(* parse fails with 'Invalid query params' listing exactly the unknown     *)
(* names.  (Stated for the calls in which no pagination value raised.)  It *)
(* fails when the q_func of a registered key raises: that exception is     *)
(* what parse raises.                                                      *)
(***************************************************************************)
C6_UnknownNamesWhenNoParserFails ==
    (Called /\ ~PageFailed /\ ~ParserFailed /\ ~NoUnknownKey) =>
       call.exc = UnknownError({p \in CallKeys : Unknown(p)})

(***************************************************************************)
(* C6, amended: when the request has unknown keys and nothing raises       *)
(* before the end of the loop over the keys (no pagination value, parser   *)
(* or predicate builder), every key was processed, unknown or not, and     *)
(* parse fails with one HTTPException 400 'Invalid query params' listing   *)
(* exactly the unknown names of the request.                               *)
(***************************************************************************)
C6_UnknownNamesBatched ==
    (LoopCompleted /\ ~NoUnknownKey) =>
       /\ call.exc = UnknownError({p \in CallKeys : Unknown(p)})
       /\ call.result = NoResult
       /\ \A k \in FilterKeys : Processed(k)
       /\ \A k \in FilterKeys : (Registered(k) /\ ~Suppressed(k)) => BuiltNormally(k)

\* two unknown names, and a registered key after the first of them is built
C6_Witness ==
    /\ LoopCompleted
    /\ Cardinality(call.exc.names) = 2
    /\ \E u, k \in FilterKeys :
          Unknown(u) /\ KeyPlace(u) < KeyPlace(k) /\ BuiltNormally(k)

(***************************************************************************)
(* C7: when a t_parser call raises anything but ValueError, parse raises a *)
(* Warning: not an HTTPException, no status 400, nothing returned, and no  *)
(* further call made.                                                      *)
(***************************************************************************)
C7_OtherParserFailureIsInternal ==
    Called => \A i \in 1..Len(call.log) :
       (call.log[i].op = "t_parser" /\ call.log[i].exc.type \notin {"none", "ValueError"}) =>
          /\ i = Len(call.log)
          /\ call.exc.type = "Warning"
          /\ call.exc.status # 400
          /\ call.exc.head \notin {"Invalid query params", "Required query params"}
          /\ call.result = NoResult

\* a KeyError from a t_parser, after an unknown key
C7_Witness ==
    /\ Called /\ call.invalid_qps # {}
    /\ \E i \in 1..Len(call.log) : call.log[i].exc.type = "KeyError"

(***************************************************************************)
(* C8, as claimed: no value given under limit or offset makes parse fail;  *)
(* the field is the non-negative integer when the value is non-empty and   *)
(* all digits, and unset otherwise.  It fails for a value str.isdigit      *)
(* accepts and int refuses, such as U+00B2: int raises ValueError.         *)
(***************************************************************************)
C8_PaginationNeverFails ==
    Called =>
      /\ call.exc = NoExc
      /\ \A key \in {"limit", "offset"} :
            LET field == IF key = "limit" THEN call.result.limit ELSE call.result.offset IN
            IF QP_has(call.qps, key) /\ IsDigit(QP_get(call.qps, key))
            THEN field.t = "int" /\ field.v >= 0
            ELSE field = NoneVal

\* the t_parser calls made for a key, in order
ParserCalls(p) ==
    LET at(n) == CHOOSE i \in LogAt("t_parser", p) :
                    Cardinality({j \in LogAt("t_parser", p) : j <= i}) = n
    IN [n \in 1..Cardinality(LogAt("t_parser", p)) |-> call.log[at(n)]]

SingleValued(p) == Registered(p) /\ ~Suppressed(p) /\ ~Descriptor(p).many

(***************************************************************************)
(* C9, as claimed: a key of a descriptor with many=False that occurs more  *)
(* than once is parsed from its first occurrence.  It fails: qps.get gives *)
(* the value of the last occurrence.                                       *)
(***************************************************************************)
C9_SingleParsedFromFirst ==
    Called => \A p \in CallKeys : SingleValued(p) =>
       \A i \in LogAt("t_parser", p) : call.log[i].arg = StrVal(ValuesOf(p)[1])

(***************************************************************************)
(* C9, amended: a key of a descriptor with many=False that occurs more     *)
(* than once is parsed once, from its last occurrence; the earlier         *)
(* occurrences decide neither the predicate nor whether parse fails.       *)
(***************************************************************************)
C9_SingleParsedFromLast ==
    Called => \A p \in CallKeys : SingleValued(p) =>
       LET last == ValuesOf(p)[Len(ValuesOf(p))]
           parsed == T_parser(Descriptor(p), last)
       IN /\ Cardinality(LogAt("t_parser", p)) <= 1
          /\ \A i \in LogAt("t_parser", p) :
                /\ call.log[i].arg = StrVal(last)
                /\ call.log[i].exc = parsed.exc
          /\ DictHas(call.query, p) =>
                /\ parsed.exc = NoExc
                /\ DictGet(call.query, p) = Q_func(Descriptor(p), parsed.val).val
          /\ (LoopCompleted \/ Processed(p)) => Cardinality(LogAt("t_parser", p)) = 1

\* a single-valued key given twice, first a value its parser refuses, then
\* one it takes: the predicate is built
C9_Witness ==
    /\ Called /\ call.exc = NoExc
    /\ \E p \in CallKeys :
          /\ SingleValued(p) /\ BuiltNormally(p)
          /\ Len(ValuesOf(p)) = 2
          /\ T_parser(Descriptor(p), ValuesOf(p)[1]).exc # NoExc

MultiValued(p) == Registered(p) /\ ~Suppressed(p) /\ Descriptor(p).many

(***************************************************************************)
(* C10: for a descriptor with many=True that is not suppressed, q_func is  *)
(* called at most once, exactly once when the loop runs to its end, and    *)
(* its argument is the list of the parsed values of all occurrences of the *)
(* key, in order of appearance, duplicates kept: one element per           *)
(* occurrence, a list also for a single occurrence.                        *)
(***************************************************************************)
C10_ManyBuiltOnceFromAllValues ==
    Called => \A p \in CallKeys : MultiValued(p) =>
       /\ Cardinality(LogAt("q_func", p)) <= 1
       /\ LoopCompleted => Cardinality(LogAt("q_func", p)) = 1
       /\ \A j \in LogAt("q_func", p) :
             /\ call.log[j].arg.t = "list"
             /\ Len(call.log[j].arg.v) = Len(ValuesOf(p))
             /\ \A n \in 1..Len(ValuesOf(p)) :
                   call.log[j].arg.v[n] = T_parser(Descriptor(p), ValuesOf(p)[n]).val
             /\ Len(ParserCalls(p)) = Len(ValuesOf(p))
             /\ \A n \in 1..Len(ValuesOf(p)) : ParserCalls(p)[n].arg = StrVal(ValuesOf(p)[n])

\* a multi-valued key given two different values, with another key between
\* them, is built from both in order
C10_Witness ==
    /\ LoopCompleted
    /\ \E p \in CallKeys :
          /\ MultiValued(p) /\ BuiltNormally(p)
          /\ Len(call.qps) = 3 /\ call.qps[1][1] = p /\ call.qps[3][1] = p
          /\ call.qps[2][1] # p /\ call.qps[1][2] # call.qps[3][2]

\* the distinct keys of the request that parse looks up, in order of first
\* appearance
FilterKeySeq == SelectSeq(QP_keys(call.qps), LAMBDA k : ~IsReserved(k))

\* the value q_func is given for a key that is not suppressed
ParsedValue(p) ==
    IF Descriptor(p).many
    THEN ListVal([n \in 1..Len(ValuesOf(p)) |-> T_parser(Descriptor(p), ValuesOf(p)[n]).val])
    ELSE T_parser(Descriptor(p), ValuesOf(p)[Len(ValuesOf(p))]).val

\* the predicate a successful parse holds for a registered key
ExpectedPredicate(p) ==
    IF Suppressed(p) THEN EmptyPredicate ELSE Q_func(Descriptor(p), ParsedValue(p)).val

(***************************************************************************)
(* C11: on a successful parse, query_list has exactly one predicate per    *)
(* distinct non-reserved key of the request, every such key is registered, *)
(* the predicates stand in the order of first appearance of their keys,    *)
(* the predicate of a suppressed key is {}, and the result carries the     *)
(* predicates, sort, limit and offset only, no parameter names.            *)
(***************************************************************************)
C11_PredicatesInKeyOrder ==
    (Called /\ call.exc = NoExc) =>
       /\ Len(call.result.query_list) = Len(FilterKeySeq)
       /\ Len(FilterKeySeq) = Cardinality(FilterKeys)
       /\ \A i \in 1..Len(FilterKeySeq) :
             /\ Registered(FilterKeySeq[i])
             /\ call.result.query_list[i] = ExpectedPredicate(FilterKeySeq[i])
       /\ DOMAIN call.result = {"query_list", "sort", "limit", "offset"}

\* a reserved key first, then two registered keys with different predicates,
\* the first of them suppressed
C11_Witness ==
    /\ Called /\ call.exc = NoExc
    /\ Len(call.qps) = 3 /\ IsReserved(call.qps[1][1])
    /\ Len(call.result.query_list) = 2
    /\ Suppressed(call.qps[2][1])
    /\ call.result.query_list[1] = EmptyPredicate
    /\ call.result.query_list[2] # EmptyPredicate

\* the request with every value under sort_by replaced by v
WithSortValues(qps, v) ==
    [i \in 1..Len(qps) |-> IF qps[i][1] = "sort_by" THEN <<"sort_by", v>> ELSE qps[i]]

(***************************************************************************)
(* C12: on a successful parse, sort is the list of the values given under  *)
(* sort_by, in order of appearance, duplicates kept, and the empty list    *)
(* when the key is absent.  No sort value is validated or causes an error: *)
(* no t_parser or q_func is called for sort_by, no error names it, and     *)
(* with any other values under sort_by the call raises the same exception  *)
(* or succeeds with the same predicates.                                   *)
(***************************************************************************)
C12_SortIsAllValuesInOrder ==
    Called =>
       /\ call.exc = NoExc =>
             /\ call.result.sort = ValuesOf("sort_by")
             /\ "sort_by" \notin CallKeys => call.result.sort = <<>>
       /\ LogAt("t_parser", "sort_by") = {} /\ LogAt("q_func", "sort_by") = {}
       /\ "sort_by" \notin call.exc.names
       /\ \A v \in FilterValues :
             LET other == Parse(classes, call.cls, WithSortValues(call.qps, v)) IN
             /\ other.exc = call.exc
             /\ other.result.query_list = call.result.query_list

\* three values under sort_by, the first given again as the third
C12_Witness ==
    /\ Called /\ call.exc = NoExc
    /\ call.result.sort = << <<"a">>, <<"1">>, <<"a">> >>

\* the names in the registries of the ancestors of class c
AncestorNames(c) == UNION {DictKeySet(classes[a].filters) : a \in Ancestors(classes, c)}

\* a name class c declares although the registry of an ancestor has it, with
\* another descriptor
Overrides(c, n) ==
    /\ DictHas(classes[c].declared, n)
    /\ \E a \in Ancestors(classes, c) :
          /\ DictHas(classes[a].filters, n)
          /\ DictGet(classes[a].filters, n) # DictGet(classes[c].declared, n)

(***************************************************************************)
(* C13: the merged registry of a type maps every name the type declares to *)
(* the descriptor it declares, whatever the registries of its ancestors    *)
(* hold under that name, and every name of an ancestor's registry is still *)
(* in it; parse calls the t_parser and the q_func of the declared          *)
(* descriptor for such a name.                                             *)
(***************************************************************************)
C13_OwnDeclarationOverrides ==
    /\ \A c \in 1..Len(classes) :
          /\ \A n \in DictKeySet(classes[c].declared) :
                DictGet(classes[c].filters, n) = DictGet(classes[c].declared, n)
          /\ AncestorNames(c) \subseteq DictKeySet(classes[c].filters)
    /\ Called => \A p \in CallKeys : Overrides(call.cls, p) =>
          LET own == DictGet(CallClass.declared, p) IN
          /\ \A i \in LogAt("t_parser", p) :
                call.log[i].exc = T_parser(own, call.log[i].arg.v).exc
          /\ \A j \in LogAt("q_func", p) :
                /\ call.log[j].exc = Q_func(own, call.log[j].arg).exc
                /\ DictHas(call.query, p) =>
                      DictGet(call.query, p) = Q_func(own, call.log[j].arg).val

\* a successful call on a subtype that declares a name of its base again,
\* with another parser and builder, and inherits another name
C13_Witness ==
    /\ Called /\ call.exc = NoExc
    /\ \E p \in CallKeys :
          /\ Overrides(call.cls, p) /\ BuiltNormally(p)
          /\ \E a \in Ancestors(classes, call.cls) :
                /\ DictHas(classes[a].filters, p)
                /\ DictGet(classes[a].filters, p).t_parser # Descriptor(p).t_parser
                /\ DictGet(classes[a].filters, p).q_func # Descriptor(p).q_func
          /\ \E n \in AncestorNames(call.cls) : ~DictHas(CallClass.declared, n)

\* the last listed base of class c whose registry has the name n
LastBaseWith(c, n) ==
    LET at == {i \in 1..Len(classes[c].bases) : DictHas(classes[classes[c].bases[i]].filters, n)}
    IN classes[c].bases[CHOOSE i \in at : \A j \in at : j <= i]

\* the descriptor the merging rule gives class c under the name n
Winner(c, n) ==
    IF DictHas(classes[c].declared, n) THEN DictGet(classes[c].declared, n)
    ELSE DictGet(classes[LastBaseWith(c, n)].filters, n)

\* the registries of the listed bases one after the other, then the
\* declarations of the class itself
RECURSIVE Chained(_, _)
Chained(c, i) ==
    IF i > Len(classes[c].bases) THEN classes[c].declared
    ELSE classes[classes[c].bases[i]].filters \o Chained(c, i + 1)

(***************************************************************************)
(* C14: the merged registry of a type holds exactly the names of its       *)
(* listed bases' registries and of its own declarations, each once, in the *)
(* order they first occur from the first base to the own declarations; a   *)
(* name the type declares maps to its declaration, any other name to the   *)
(* descriptor of the last listed base that has it.                         *)
(***************************************************************************)
C14_RegistryIsFoldOfBases ==
    \A c \in 2..Len(classes) :
       LET filters == classes[c].filters IN
       /\ DictKeys(filters) = QP_keys(Chained(c, 1))
       /\ \A i, j \in 1..Len(filters) : filters[i][1] = filters[j][1] => i = j
       /\ \A n \in DictKeySet(filters) : DictGet(filters, n) = Winner(c, n)

\* a type with two bases whose registries hold different descriptors under
\* one name, which the type does not declare, and a parse call on it
C14_Witness ==
    /\ Called
    /\ Len(CallClass.bases) = 2
    /\ \E n \in DictKeySet(CallClass.filters) :
          /\ ~DictHas(CallClass.declared, n)
          /\ DictHas(classes[CallClass.bases[1]].filters, n)
          /\ DictHas(classes[CallClass.bases[2]].filters, n)
          /\ DictGet(classes[CallClass.bases[1]].filters, n)
                # DictGet(classes[CallClass.bases[2]].filters, n)
          /\ n \in CallKeys

(***************************************************************************)
(* C15: limit, offset and sort_by are never looked up in the registry: in  *)
(* no call is one of them among the unknown names or in the 'Invalid query *)
(* params' error, and even with a descriptor registered under such a name  *)
(* no t_parser or q_func is called for it and it has no entry in query, so *)
(* a successful call holds predicates for the other keys only.             *)
(***************************************************************************)
C15_ReservedKeysNeverLookedUp ==
    Called => \A k \in {"limit", "offset", "sort_by"} :
       /\ k \notin call.invalid_qps
       /\ call.exc.head = "Invalid query params" => k \notin call.exc.names
       /\ LogAt("t_parser", k) = {} /\ LogAt("q_func", k) = {}
       /\ ~DictHas(call.query, k)
       /\ call.exc = NoExc =>
             Len(call.result.query_list) = Cardinality(CallKeys \ {"limit", "offset", "sort_by"})

\* a successful call with limit and with sort_by, on a type that registers a
\* descriptor under sort_by whose parser would refuse the value given
C15_Witness ==
    /\ Called /\ call.exc = NoExc
    /\ {"limit", "sort_by"} \subseteq CallKeys
    /\ DictHas(CallClass.filters, "sort_by")
    /\ \E i \in 1..Len(ValuesOf("sort_by")) :
          T_parser(DictGet(CallClass.filters, "sort_by"), ValuesOf("sort_by")[i]).exc # NoExc

\* the registry of a type: __filters__, __required_filter_set__, __docs__
Registry(c) == <<c.filters, c.required, c.docs>>

(***************************************************************************)
(* C16: no step changes the registry of a type that is already defined:    *)
(* not a parse call, returning or raising, not get_docs, and not the       *)
(* definition of a subtype, which adds a type and leaves the descriptor    *)
(* map, the required-name set and the documentation of every ancestor as   *)
(* they were.                                                              *)
(***************************************************************************)
C16_RegistryNeverChanges ==
    [][/\ Len(classes') >= Len(classes)
       /\ \A c \in 1..Len(classes) : Registry(classes'[c]) = Registry(classes[c])]_vars

\* get_docs on a type with filters after a subtype of it was defined that
\* declares one of its names again, with another descriptor
C16_Witness ==
    /\ call.op = "get_docs"
    /\ call.docs # <<>> /\ call.docs = classes[call.cls].docs
    /\ \E c \in 1..Len(classes) :
          /\ call.cls \in Ancestors(classes, c)
          /\ \E n \in DictKeySet(classes[call.cls].declared) : Overrides(c, n)

\* the caller holds the outcomes of two parse calls of one request
CalledTwice == call # NoCall /\ before # NoCall

C18_ProvidedParsersRaiseValueError ==
    Called =>
       /\ \A i \in 1..Len(call.log) : call.log[i].op = "t_parser" =>
             /\ call.log[i].exc.type \in {"none", "ValueError"}
             /\ call.log[i].exc.type = "ValueError" =>
                   call.exc = HTTPException(400, call.log[i].exc.head, {},
                                            call.log[i].exc.value)
       /\ call.exc.type # "Warning"

\* what the try block of parse ends with for a key that is not suppressed
TryOutcome(k) == ParseValue(Descriptor(k), k, call.qps, <<>>)

\* a registered key that is not suppressed and has a value its parser refuses
Refused(k) == Registered(k) /\ ~Suppressed(k) /\ TryOutcome(k).exc # NoExc

\* the first such key of the request
FirstRefused ==
    CHOOSE k \in FilterKeys : Refused(k) /\ \A j \in FilterKeys : Refused(j) => KeyPlace(k) <= KeyPlace(j)

FailedCalls == {i \in 1..Len(call.log) : call.log[i].exc # NoExc}

(***************************************************************************)
(* C19: the order of the errors of one parse call.  When a t_parser call   *)
(* fails, parse raises that failure (HTTPException 400 with the parser's   *)
(* message, or the Warning) whatever unknown names were found before it;   *)
(* so, unless a pagination value or a q_func raises, the error is the one  *)
(* of the first key whose value its parser refuses.  'Invalid query        *)
(* params' is raised only after the loop ran to its end, and then whenever *)
(* an unknown name was found, required names missing or not.  'Required    *)
(* query params' is raised only when the loop ran to its end, every key    *)
(* was processed and no unknown name was found.  A call that fails raises  *)
(* one exception: at most one t_parser or q_func call fails, it is the     *)
(* last one made, and nothing is returned.                                 *)
(***************************************************************************)
C19_ErrorPrecedence ==
    Called =>
       /\ ParserFailed =>
             /\ call.exc = Translated(call.log[Len(call.log)].exc)
             /\ call.exc.head \notin {"Invalid query params", "Required query params"}
       /\ (~PageFailed /\ ~BuilderFailed /\ \E k \in FilterKeys : Refused(k)) =>
             /\ ParserFailed
             /\ call.exc = Translated(TryOutcome(FirstRefused).exc)
       /\ call.exc.head = "Invalid query params" => LoopCompleted /\ ~NoUnknownKey
       /\ (LoopCompleted /\ ~NoUnknownKey) => call.exc.head = "Invalid query params"
       /\ call.exc.head = "Required query params" =>
             /\ LoopCompleted /\ NoUnknownKey
             /\ \A k \in FilterKeys : Processed(k)
       /\ Cardinality(FailedCalls) <= 1
       /\ \A i \in FailedCalls : i = Len(call.log) /\ call.exc # NoExc
       /\ call.exc # NoExc => call.result = NoResult

\* an unknown key, after it a key whose parser refuses the value, on a type
\* with a required name that the request does not give
C19_Witness ==
    /\ Called /\ ParserFailed
    /\ call.invalid_qps # {}
    /\ CallClass.required \ CallKeys # {}
    /\ call.exc.type = "HTTPException"

\* a name of the registry that is not a key of the request although a name
\* of its exclusions is
AbsentButExcluded(p) ==
    /\ DictHas(CallClass.filters, p)
    /\ p \notin CallKeys
    /\ ExclusionSet(p) \cap CallKeys # {}

(***************************************************************************)
(* C20, as claimed: a required descriptor whose key is absent from the     *)
(* request is not resolved by the presence of a name of its exclusions: a  *)
(* call in which nothing raised earlier fails with 'Required query params' *)
(* naming it.  It fails for a required descriptor the type inherits and    *)
(* does not declare again: the call succeeds.                              *)
(***************************************************************************)
C20_AbsentRequiredIsMissing ==
    (LoopCompleted /\ NoUnknownKey) =>
       \A p \in DictKeySet(CallClass.filters) :
          (Descriptor(p).is_required /\ AbsentButExcluded(p)) =>
             /\ ~DictHas(call.query, p)
             /\ call.exc.head = "Required query params" /\ p \in call.exc.names

(***************************************************************************)
(* C20, amended: a required descriptor declared on the type itself whose   *)
(* key is absent from the request is not resolved by the presence of a     *)
(* name of its exclusions: it has no entry in query, and a call in which   *)
(* nothing raised earlier and no unknown name was found fails with         *)
(* HTTPException 400 'Required query params' naming it.                    *)
(***************************************************************************)
C20_AbsentDeclaredRequiredIsMissing ==
    Called =>
       \A p \in DeclaredRequired(CallClass) : AbsentButExcluded(p) =>
          /\ ~DictHas(call.query, p)
          /\ call.exc # NoExc
          /\ (LoopCompleted /\ NoUnknownKey) =>
                /\ call.exc.type = "HTTPException" /\ call.exc.status = 400
                /\ call.exc.head = "Required query params" /\ p \in call.exc.names

\* the only key of the request is in the exclusions of a declared required
\* name, is itself built, and the call fails naming the required name
C20_Witness ==
    /\ LoopCompleted /\ NoUnknownKey
    /\ call.exc.head = "Required query params"
    /\ \E p \in DeclaredRequired(CallClass) :
          /\ AbsentButExcluded(p)
          /\ call.exc.names = {p}
          /\ \E b \in ExclusionSet(p) \cap CallKeys : BuiltNormally(b)

\* the entry of __docs__ for the i-th descriptor of a merged map
DocEntry(filters, i) ==
    LET f == filters[i][2] IN
    [name |-> filters[i][1], description |-> f.description,
     value_type |-> IF f.type_arg \in {"Color", "Level"}
                    THEN [name |-> EnumOf(f.type_arg).base, values |-> EnumOf(f.type_arg).values]
                    ELSE [name |-> f.type_arg, values |-> <<>>],
     many |-> f.many, is_required |-> f.is_required, exclusions |-> f.exclusions]

(***************************************************************************)
(* C21, as claimed: every type definition computes the documentation: one  *)
(* entry per descriptor of the merged map, in the order of the map (a name *)
(* declared again keeps the place of its first insertion), each with the   *)
(* description, the value-type label, many, is_required and the            *)
(* exclusions; it is empty when the map is empty, and get_docs returns the *)
(* stored documentation.  It fails for a descriptor Filter[E] of an Enum E *)
(* whose values are not strings: the class statement raises TypeError.     *)
(***************************************************************************)
C21_DocsOneEntryPerDescriptor ==
    /\ call.op = "define" =>
          /\ call.exc = NoExc
          /\ call.docs = classes[call.cls].docs
    /\ \A c \in 1..Len(classes) :
          LET filters == classes[c].filters IN
          /\ Len(classes[c].docs) = Len(filters)
          /\ \A i \in 1..Len(filters) : classes[c].docs[i] = DocEntry(filters, i)
          /\ filters = EmptyDict => classes[c].docs = <<>>
          /\ c > 1 => [i \in 1..Len(filters) |-> classes[c].docs[i].name] = QP_keys(Chained(c, 1))
    /\ call.op = "get_docs" => call.docs = classes[call.cls].docs

(***************************************************************************)
(* C22: parse calls that run beside each other, their steps interleaved in *)
(* any order, each end as the same call run alone: the same ParseResult or *)
(* the same exception, after the same t_parser and q_func calls, with the  *)
(* same query and invalid_qps.                                             *)
(***************************************************************************)
C22_ConcurrentCallsAsAlone ==
    \A t \in Calls : running[t].done =>
       /\ running[t].outcome = Parse(classes, running[t].cls, running[t].qps)
       /\ running[t].st.query = running[t].outcome.query
       /\ running[t].st.invalid_qps = running[t].outcome.invalid_qps

\* a call that succeeded with two predicates while another call on the same
\* type, with another request, is in its loop with an unknown name found
C22_Witness ==
    /\ running[2].done /\ running[2].outcome.exc = NoExc
    /\ Len(running[2].outcome.result.query_list) = 2
    /\ running[1] # IdleRun /\ ~running[1].done
    /\ running[1].cls = running[2].cls /\ running[1].qps # running[2].qps
    /\ running[1].i = 2 /\ running[1].st.invalid_qps # {}

\* two registered keys of the request that list each other in their
\* exclusions
ExcludeEachOther(a, b) ==
    /\ a # b /\ Registered(a) /\ Registered(b)
    /\ {a, b} \subseteq CallKeys
    /\ b \in ExclusionSet(a) /\ a \in ExclusionSet(b)

\* a registered key of the request that lists itself in its exclusions
ExcludesItself(p) == Registered(p) /\ p \in CallKeys /\ p \in ExclusionSet(p)

\* no t_parser or q_func call for p, and the empty predicate if any
LeftOut(p) ==
    /\ LogAt("t_parser", p) = {} /\ LogAt("q_func", p) = {}
    /\ DictHas(call.query, p) => DictGet(call.query, p) = EmptyPredicate
    /\ LoopCompleted => DictHas(call.query, p)
    /\ ~(call.exc.head = "Required query params" /\ p \in call.exc.names)

(***************************************************************************)
(* C23: two registered keys of the request that list each other in their   *)
(* exclusions are both suppressed: no t_parser or q_func is called for     *)
(* either and both get the empty predicate; so is a key that lists itself. *)
(* A request of such keys only, on a type that requires no other name,     *)
(* succeeds with empty predicates only.                                    *)
(***************************************************************************)
C23_MutualExclusionSuppressesBoth ==
    Called =>
       /\ \A a, b \in CallKeys : ExcludeEachOther(a, b) => LeftOut(a) /\ LeftOut(b)
       /\ \A p \in CallKeys : ExcludesItself(p) => LeftOut(p)
       /\ ( (\A p \in CallKeys :
                 ExcludesItself(p) \/ \E b \in CallKeys : ExcludeEachOther(p, b))
             /\ (CallClass.required \subseteq CallKeys) )
            => /\ call.exc = NoExc
               /\ Len(call.result.query_list) = Cardinality(CallKeys)
               /\ \A i \in 1..Len(call.result.query_list) :
                     call.result.query_list[i] = EmptyPredicate

\* the keys of a circle and a key that excludes itself, each with a value
\* its parser or builder refuses, and the call succeeds
C23_Witness ==
    /\ Called /\ call.exc = NoExc
    /\ \E a, b, p \in CallKeys :
          /\ ExcludeEachOther(a, b) /\ ExcludesItself(p)
          /\ T_parser(Descriptor(a), ValuesOf(a)[1]).exc # NoExc
          /\ T_parser(Descriptor(b), ValuesOf(b)[1]).exc # NoExc
          /\ Q_func(Descriptor(p), ListVal(<<StrVal(ValuesOf(p)[1])>>)).exc # NoExc

\* a reserved name the type of the call declares itself, as required
DeclaredRequiredReserved(n) ==
    /\ IsReserved(n)
    /\ DictHas(CallClass.declared, n)
    /\ DictGet(CallClass.declared, n).is_required

\* the call got as far as _check_required_filters
ReachedRequiredCheck == LoopCompleted /\ call.invalid_qps = {}

(***************************************************************************)
(* C24: a required descriptor a type declares under limit, offset or       *)
(* sort_by is never resolved: no parse call on the type succeeds, and      *)
(* every call that reaches the required check fails with the HTTP 400      *)
(* "Required query params" error naming it, the key given or not.          *)
(***************************************************************************)
C24_RequiredReservedNeverResolved ==
    Called =>
       \A n \in Keys : DeclaredRequiredReserved(n) =>
          /\ ~DictHas(call.query, n)
          /\ LogAt("t_parser", n) = {} /\ LogAt("q_func", n) = {}
          /\ call.exc # NoExc
          /\ ReachedRequiredCheck =>
                /\ call.exc.type = "HTTPException"
                /\ call.exc.status = HTTP_400_BAD_REQUEST
                /\ call.exc.head = "Required query params"
                /\ n \in call.exc.names

\* the three reserved names declared as required and all given, with values
\* their parsers accept, and the required check reached
C24_Witness ==
    /\ Called /\ ReachedRequiredCheck
    /\ \A n \in {"limit", "offset", "sort_by"} :
          DeclaredRequiredReserved(n) /\ n \in CallKeys
    /\ call.result = NoResult
    /\ call.exc.names = {"limit", "offset", "sort_by"}

\* the q_func calls of the log that raised
FailedBuilds == {i \in 1..Len(call.log) : call.log[i].op = "q_func" /\ call.log[i].exc # NoExc}

(***************************************************************************)
(* C25: an exception of a q_func, a ValueError as any other, leaves parse  *)
(* as it was raised: it is not turned into the HTTP 400 error nor into the *)
(* Warning, nothing is called after it and no result is returned.  The     *)
(* Warning and an HTTP 400 error that is neither of the two checks come    *)
(* from a t_parser only.                                                   *)
(***************************************************************************)
C25_BuilderFailuresPropagate ==
    Called =>
       /\ \A i \in FailedBuilds :
             /\ i = Len(call.log)
             /\ call.log[i].exc = Q_func(Descriptor(call.log[i].name), call.log[i].arg).exc
             /\ call.exc = call.log[i].exc
             /\ call.exc.type \notin {"HTTPException", "Warning"}
             /\ call.exc.status # HTTP_400_BAD_REQUEST
             /\ call.result = NoResult
       /\ call.exc.type = "Warning" => ParserFailed
       /\ ( /\ call.exc.type = "HTTPException"
             /\ call.exc.head \notin {"Invalid query params", "Required query params"} )
            => ParserFailed

\* a q_func raised a ValueError after another key's value was parsed and built
C25_Witness ==
    /\ Called
    /\ call.exc = Exc("ValueError", 0, "unsupported tag", NoNames, <<>>)
    /\ FailedBuilds # {}
    /\ call.query # EmptyDict

(***************************************************************************)
(* C26: the required flag of an entry of __docs__ is the is_required field *)
(* of the descriptor the merged map holds under that name, whether the     *)
(* name is in __required_filter_set__ or not; for a name the type declares *)
(* itself the flag and the membership agree.                               *)
(***************************************************************************)
C26_DocsShowOwnRequiredFlag ==
    /\ \A c \in 1..Len(classes) : \A i \in 1..Len(classes[c].docs) :
          LET n == classes[c].docs[i].name IN
          /\ DictHas(classes[c].filters, n)
          /\ classes[c].docs[i].is_required = DictGet(classes[c].filters, n).is_required
          /\ DictHas(classes[c].declared, n) =>
                (classes[c].docs[i].is_required <=> n \in classes[c].required)
    /\ (call.op = "get_docs" /\ call.cls > 0) =>
          \A i \in 1..Len(call.docs) :
             call.docs[i].is_required =
                DictGet(classes[call.cls].filters, call.docs[i].name).is_required

\* get_docs of a type that inherits a required descriptor without declaring
\* it again: the entry says required, the required set does not hold the name
C26_Witness ==
    /\ call.op = "get_docs" /\ call.cls > 0
    /\ \E i \in 1..Len(call.docs) :
          /\ call.docs[i].is_required
          /\ ~DictHas(classes[call.cls].declared, call.docs[i].name)
          /\ call.docs[i].name \notin classes[call.cls].required
    /\ \E i \in 1..Len(call.docs) :
          /\ DictHas(classes[call.cls].declared, call.docs[i].name)
          /\ call.docs[i].is_required

(***************************************************************************)
(* C27: of every type, however many types were defined before it and       *)
(* whatever its bases, __required_filter_set__ holds keys of the merged    *)
(* __filters__ only, each of a descriptor whose is_required is true.       *)
(***************************************************************************)
C27_RequiredSetWithinMergedMap ==
    \A c \in 1..Len(classes) :
       /\ classes[c].required \subseteq DictKeySet(classes[c].filters)
       /\ \A n \in classes[c].required : DictGet(classes[c].filters, n).is_required

\* a type with two bases, one of them a subtype itself, whose required set
\* is not empty and leaves out a required descriptor it inherits, beside a
\* descriptor that is not required
C27_Witness ==
    \E c \in 1..Len(classes) :
       /\ Len(classes[c].bases) = 2
       /\ \E b \in Ancestors(classes, c) : Ancestors(classes, b) \ {1} # {}
       /\ classes[c].required # {}
       /\ \E n \in DictKeySet(classes[c].filters) \ classes[c].required :
             DictGet(classes[c].filters, n).is_required
       /\ \E n \in DictKeySet(classes[c].filters) :
             ~DictGet(classes[c].filters, n).is_required

====
